---- MODULE Spec2Model ----
(***************************************************************************)
(* Model of Source/Core/CustomProjection.js: a MapProjection whose project *)
(* and unproject functions come from an external file.  The state is the   *)
(* module-level cache loadedProjectionFunctions, the global                *)
(* createProjectionFunctions that a loaded file assigns, and the fields of *)
(* every CustomProjection constructed so far.                              *)
(*                                                                         *)
(* Promise handlers run synchronously when their promise settles, as the   *)
(* vendored when.js does; the only suspension points are therefore the     *)
(* JSONP fetch (host), and a factory that keeps the callback for later.    *)
(***************************************************************************)
EXTENDS Integers, Sequences, FiniteSets, TLC

\* Bounds of the model.
MaxAdapters == 2      \* constructions that pass the argument checks
MaxCallbacks == 2     \* invocations of completion callbacks, all Adapters together
MaxObjects == 4       \* coordinate objects: the caller's and those project and unproject allocate

\* The JavaScript value undefined: an argument the caller left out, a property
\* that is not there.
Undefined == "<undefined>"

\* The global createProjectionFunctions before any loaded file has assigned it:
\* reading it throws a ReferenceError.
Undeclared == "<undeclared>"

\* The values passed as url and as projectionName.
BaseUri == "https://h/"
UrlInputs == {Undefined, "", "a.js", "https://h/b.js"}
NameInputs == {Undefined, "", "simple"}

\* The keys loadedProjectionFunctions is read and written under, and the
\* properties it inherits, as every object literal, from Object.prototype.
PrototypeProperties == {"constructor"}
ProjectionNames == {"", "simple"} \cup PrototypeProperties

\* typeof v
TypeOf(v) == IF v = Undefined THEN "undefined" ELSE "string"

\* Check.typeOf.string(name, test): passes exactly when typeof test is 'string'.
CheckTypeOfString(v) == TypeOf(v) = "string"

\* defined(value)
defined(v) == v # Undefined

\* getAbsoluteUri(url): a relative reference is resolved against the document base.
getAbsoluteUri(u) ==
    IF u = "" THEN BaseUri
    ELSE IF u = "a.js" THEN "https://h/a.js"
    ELSE u

\* What the file at an absolute url does when it is run: it assigns a factory to
\* the global createProjectionFunctions, or assigns nothing.  Whether a file can
\* be loaded at all is decided at each load.
ModuleAt(u) ==
    IF u = "https://h/a.js" THEN "fA"
    ELSE IF u = "https://h/b.js" THEN "fB"
    ELSE "nothing"

\* What a factory does with the callback it is given: it calls it before it
\* returns, keeps it to call it later, or throws.
FactoryBehaviours == {"sync", "later", "throw"}

\* Promise states (when.defer, when.resolve, promise.then).  A value is an
\* Adapter, undefined, or an error; url and name are what an error tells of the
\* url and the name of the load.
Pending == [state |-> "pending", kind |-> "none", id |-> 0, url |-> "-", name |-> "-"]
AdapterValue(self) == [kind |-> "adapter", id |-> self, url |-> "-", name |-> "-"]
UndefinedValue == [kind |-> "undefined", id |-> 0, url |-> "-", name |-> "-"]
ErrorValue(k, u, n) == [kind |-> k, id |-> 0, url |-> u, name |-> n]

PromiseResolve(p, v) ==
    IF p.state = "pending"
    THEN [state |-> "resolved", kind |-> v.kind, id |-> v.id, url |-> v.url, name |-> v.name]
    ELSE p

PromiseReject(p, v) ==
    IF p.state = "pending"
    THEN [state |-> "rejected", kind |-> v.kind, id |-> v.id, url |-> v.url, name |-> v.name]
    ELSE p

\* A function handed over by a factory: which of the pair, whose, and in which
\* call of the callback.
NoFunction == [fn |-> "undefined", by |-> "none", seq |-> 0]
PairFunction(f, by, seq) == [fn |-> f, by |-> by, seq |-> seq]

\* The radius the example pair of lines 242-256 scales by.
Radius == 6378137

\* A reference to no object: a result argument the caller left out.
NoObject == 0

\* Coordinate objects.  v holds longitude, latitude, height of a Cartographic and
\* x, y, z of a Cartesian3.
Cartographic(v) == [shape |-> "Cartographic", v |-> v]
Cartesian3(v) == [shape |-> "Cartesian3", v |-> v]

\* new Cartographic(), new Cartesian3()
NewObject(shape) == [shape |-> shape, v |-> <<0, 0, 0>>]

\* The coordinates callers pass: geographic ones, and planar ones on the grid on
\* which the division by Radius is exact.
GeoInputs == {<<1, 2, 3>>, <<2, 1, 0>>}
PlanarInputs == {<<Radius, 2 * Radius, 3>>, <<2 * Radius, 0, 1>>}

\* What a stored function writes into its result for the input v: the pair every
\* factory of the model hands over is the example pair of lines 243-253.
StoredCall(fn, v) ==
    IF fn.fn = "project" THEN <<v[1] * Radius, v[2] * Radius, v[3]>>
    ELSE IF fn.fn = "unproject" THEN <<v[1] \div Radius, v[2] \div Radius, v[3]>>
    ELSE v

VARIABLES
    isWorker,       \* self instanceof WorkerGlobalScope
    cache,          \* loadedProjectionFunctions: its own properties
    slot,           \* the global createProjectionFunctions
    adapters,       \* the CustomProjection objects, in order of construction
    loadCount,      \* calls of Resource.fetchJsonp and importScripts so far
    last,           \* the most recent operation and what its caller observed
    heap            \* the coordinate objects, in order of allocation

vars == <<isWorker, cache, slot, adapters, loadCount, last, heap>>

\* The objects of a shape.
Refs(h, shape) == {r \in 1..Len(h) : h[r].shape = shape}

Event(op, a, outcome) ==
    [op |-> op, a |-> a, outcome |-> outcome, url |-> "-", name |-> "-", cacheRead |-> FALSE,
     arg |-> NoObject, out |-> NoObject, ret |-> NoObject]

\* A call of project or unproject: the input object, the result argument and
\* the object returned.
CallEvent(op, a, outcome, arg, out, ret) ==
    [op |-> op, a |-> a, outcome |-> outcome, url |-> "-", name |-> "-", cacheRead |-> FALSE,
     arg |-> arg, out |-> out, ret |-> ret]

ConstructEvent(a, outcome, url, name, read) ==
    [op |-> "construct", a |-> a, outcome |-> outcome, url |-> url, name |-> name, cacheRead |-> read,
     arg |-> NoObject, out |-> NoObject, ret |-> NoObject]

\* loadedProjectionFunctions[projectionName]
CacheLookup(c, n) ==
    IF c[n] # Undefined THEN c[n]
    ELSE IF n \in PrototypeProperties THEN "Object"
    ELSE Undefined

\* The fields of a CustomProjection after lines 47-57, with the deferred of line
\* 194.  stage is where its load stands: "fetching" (JSONP fetch started),
\* "executed" (the file has run), "invoked" (the factory was called and holds the
\* callback), "ignored" (the factory was called and dropped the callback),
\* "failed" (the load was rejected), "orphan" (the constructor threw).
NewAdapter(absUrl, name, path) ==
    [ name |-> name, url |-> absUrl,
      project |-> NoFunction, unproject |-> NoFunction, ready |-> FALSE,
      path |-> path, stage |-> "building", factory |-> "none", cbCount |-> 0,
      deferred |-> Pending, fetch |-> Pending ]

\* The promise stored in _readyPromise: the deferred itself on a cache hit (line
\* 203), the chained fetch promise otherwise (line 232).
readyPromise(ad) == IF ad.path = "hit" THEN ad.deferred ELSE ad.fetch

Init ==
    /\ isWorker \in BOOLEAN
    /\ cache = [n \in ProjectionNames |-> Undefined]
    /\ slot = Undeclared
    /\ adapters = <<>>
    /\ loadCount = 0
    /\ last = Event("init", 0, "-")
    /\ heap = <<Cartographic(<<1, 2, 3>>), Cartesian3(<<Radius, 2 * Radius, 3>>)>>

\* CompletionCallback with a flag that only the first call sets.
CompletionCallbackFirstOnly(ad, self) ==
    LET n == ad.cbCount + 1 IN
    [ad EXCEPT !.project = PairFunction("project", ad.factory, n),
               !.unproject = PairFunction("unproject", ad.factory, n),
               !.ready = (n = 1),
               !.cbCount = n,
               !.deferred = PromiseResolve(@, IF ad.path = "hit"
                                                THEN AdapterValue(self)
                                                ELSE UndefinedValue)]

\* CompletionCallback resolving the deferred without a value on both paths.
CompletionCallbackResolveEmpty(ad, self) ==
    LET n == ad.cbCount + 1 IN
    [ad EXCEPT !.project = PairFunction("project", ad.factory, n),
               !.unproject = PairFunction("unproject", ad.factory, n),
               !.ready = TRUE,
               !.cbCount = n,
               !.deferred = PromiseResolve(@, UndefinedValue)]

\* CompletionCallback making a new rejected deferred when it is called again.
CompletionCallbackRejectAgain(ad, self) ==
    LET n == ad.cbCount + 1 IN
    [ad EXCEPT !.project = PairFunction("project", ad.factory, n),
               !.unproject = PairFunction("unproject", ad.factory, n),
               !.ready = TRUE,
               !.cbCount = n,
               !.deferred = IF n > 1
                            THEN PromiseReject(Pending, ErrorValue("Error", "-", "-"))
                            ELSE PromiseResolve(@, IF ad.path = "hit"
                                                     THEN AdapterValue(self)
                                                     ELSE UndefinedValue)]

\* The callback of lines 196-201 (cache hit) and 219-224 (cache miss), invoked by
\* the factory ad.factory for the cbCount+1st time.
CompletionCallback(ad, self) ==
    LET n == ad.cbCount + 1 IN
    [ad EXCEPT !.project = PairFunction("project", ad.factory, n),
               !.unproject = PairFunction("unproject", ad.factory, n),
               !.ready = TRUE,
               !.cbCount = n,
               !.deferred = PromiseResolve(@, IF ad.path = "hit"
                                                THEN AdapterValue(self)
                                                ELSE UndefinedValue)]

\* Lines 226-230: the first handler returns deferred.promise, the second one
\* returns customProjection; the chained promise follows the deferred.
ChainSettle(ad, self) ==
    IF ad.path = "miss" /\ ad.deferred.state = "resolved"
    THEN [ad EXCEPT !.fetch = PromiseResolve(@, AdapterValue(self))]
    ELSE ad

\* Whether the call f(callback) throws.  Object, found under an inherited
\* property name, returns its argument uncalled.
FactoryThrows(f, b) == f # "Object" /\ b = "throw"

\* InvokeFactory marking the Adapter ready as soon as the factory has returned.
InvokeFactoryMarksReady(ad, self, f, b) ==
    LET ad1 == [ad EXCEPT !.factory = f,
                          !.ready = ~(f # "Object" /\ b = "throw"),
                          !.stage = IF f = "Object" THEN "ignored"
                                    ELSE IF b = "throw" THEN "failed"
                                    ELSE "invoked"]
    IN IF f # "Object" /\ b = "sync" THEN CompletionCallback(ad1, self) ELSE ad1

\* f(callback), lines 196 and 219: b is what the factory does with the callback.
InvokeFactory(ad, self, f, b) ==
    LET ad1 == [ad EXCEPT !.factory = f,
                          !.stage = IF f = "Object" THEN "ignored"
                                    ELSE IF b = "throw" THEN "failed"
                                    ELSE "invoked"]
    IN IF f # "Object" /\ b = "sync" THEN CompletionCallback(ad1, self) ELSE ad1

\* Continuation without the assignment of line 218.
ContinuationNoStore(ads, self, s, b) ==
    IF s = Undeclared
    THEN /\ adapters' = [ads EXCEPT
                ![self].stage = "failed",
                ![self].fetch = PromiseReject(@, ErrorValue("ReferenceError", "-", "-"))]
         /\ UNCHANGED cache
    ELSE /\ UNCHANGED cache
         /\ LET ad1 == InvokeFactory(ads[self], self, s, b)
                ad2 == IF FactoryThrows(s, b)
                       THEN [ad1 EXCEPT !.fetch = PromiseReject(@, ErrorValue("FactoryError", "-", "-"))]
                       ELSE ChainSettle(ad1, self)
            IN adapters' = [ads EXCEPT ![self] = ad2]

\* Continuation keeping the entry a name already has.
ContinuationFirstWins(ads, self, s, b) ==
    IF s = Undeclared
    THEN /\ adapters' = [ads EXCEPT
                ![self].stage = "failed",
                ![self].fetch = PromiseReject(@, ErrorValue("ReferenceError", "-", "-"))]
         /\ UNCHANGED cache
    ELSE /\ cache' = IF defined(cache[ads[self].name]) THEN cache
                     ELSE [cache EXCEPT ![ads[self].name] = s]
         /\ LET ad1 == InvokeFactory(ads[self], self, s, b)
                ad2 == IF FactoryThrows(s, b)
                       THEN [ad1 EXCEPT !.fetch = PromiseReject(@, ErrorValue("FactoryError", "-", "-"))]
                       ELSE ChainSettle(ad1, self)
            IN adapters' = [ads EXCEPT ![self] = ad2]

\* Continuation removing the entry of the name when the factory throws.
ContinuationEvictsOnThrow(ads, self, s, b) ==
    IF s = Undeclared
    THEN /\ adapters' = [ads EXCEPT
                ![self].stage = "failed",
                ![self].fetch = PromiseReject(@, ErrorValue("ReferenceError", "-", "-"))]
         /\ UNCHANGED cache
    ELSE /\ cache' = [cache EXCEPT ![ads[self].name] = IF FactoryThrows(s, b) THEN Undefined ELSE s]
         /\ LET ad1 == InvokeFactory(ads[self], self, s, b)
                ad2 == IF FactoryThrows(s, b)
                       THEN [ad1 EXCEPT !.fetch = PromiseReject(@, ErrorValue("FactoryError", "-", "-"))]
                       ELSE ChainSettle(ad1, self)
            IN adapters' = [ads EXCEPT ![self] = ad2]

\* Continuation with the assignment of line 218 placed after the call of line
\* 219: a factory that throws leaves the cache as it was.
ContinuationStoresAfter(ads, self, s, b) ==
    IF s = Undeclared
    THEN /\ adapters' = [ads EXCEPT
                ![self].stage = "failed",
                ![self].fetch = PromiseReject(@, ErrorValue("ReferenceError", "-", "-"))]
         /\ UNCHANGED cache
    ELSE /\ cache' = IF FactoryThrows(s, b) THEN cache ELSE [cache EXCEPT ![ads[self].name] = s]
         /\ LET ad1 == InvokeFactory(ads[self], self, s, b)
                ad2 == IF FactoryThrows(s, b)
                       THEN [ad1 EXCEPT !.fetch = PromiseReject(@, ErrorValue("FactoryError", "-", "-"))]
                       ELSE ChainSettle(ad1, self)
            IN adapters' = [ads EXCEPT ![self] = ad2]

\* Lines 216-230, run for ads[self] when its fetch promise is fulfilled; s is the
\* value of the global createProjectionFunctions at that moment.  An exception
\* in the handler rejects the chained promise.
Continuation(ads, self, s, b) ==
    IF s = Undeclared
    THEN /\ adapters' = [ads EXCEPT
                ![self].stage = "failed",
                ![self].fetch = PromiseReject(@, ErrorValue("ReferenceError", "-", "-"))]
         /\ UNCHANGED cache
    ELSE /\ cache' = [cache EXCEPT ![ads[self].name] = s]
         /\ LET ad1 == InvokeFactory(ads[self], self, s, b)
                ad2 == IF FactoryThrows(s, b)
                       THEN [ad1 EXCEPT !.fetch = PromiseReject(@, ErrorValue("FactoryError", "-", "-"))]
                       ELSE ChainSettle(ad1, self)
            IN adapters' = [ads EXCEPT ![self] = ad2]

\* ConstructRejected with the argument checks placed after the load is started.
ConstructRejectedLate(url, name) ==
    /\ ~(CheckTypeOfString(url) /\ CheckTypeOfString(name))
    /\ loadCount' = loadCount + 1
    /\ last' = ConstructEvent(0, "DeveloperError", url, name, FALSE)
    /\ UNCHANGED <<isWorker, cache, slot, adapters, heap>>

\* Lines 44-45: an argument that is not a string makes the constructor throw.
ConstructRejected(url, name) ==
    /\ ~(CheckTypeOfString(url) /\ CheckTypeOfString(name))
    /\ last' = ConstructEvent(0, "DeveloperError", url, name, FALSE)
    /\ UNCHANGED <<isWorker, cache, slot, adapters, loadCount, heap>>

\* Lines 195-204: the name is found in loadedProjectionFunctions.
BuildCacheHit(url, name, b) ==
    /\ CheckTypeOfString(url) /\ CheckTypeOfString(name)
    /\ Len(adapters) < MaxAdapters
    /\ defined(CacheLookup(cache, name))
    /\ LET self == Len(adapters) + 1
           f == CacheLookup(cache, name)
           ad == InvokeFactory(NewAdapter(getAbsoluteUri(url), name, "hit"), self, f, b)
       IN IF FactoryThrows(f, b)
          THEN /\ adapters' = Append(adapters, [ad EXCEPT !.stage = "orphan"])
               /\ last' = ConstructEvent(0, "FactoryError", url, name, TRUE)
          ELSE /\ adapters' = Append(adapters, ad)
               /\ last' = ConstructEvent(self, "ok", url, name, TRUE)
    /\ UNCHANGED <<isWorker, cache, slot, loadCount, heap>>

\* Lines 206-208 and 215-232 in a worker: importScripts runs the file at once,
\* or throws when the file cannot be loaded (loaded = FALSE).
BuildInWorker(url, name, loaded, b) ==
    /\ CheckTypeOfString(url) /\ CheckTypeOfString(name)
    /\ Len(adapters) < MaxAdapters
    /\ ~defined(CacheLookup(cache, name))
    /\ isWorker
    /\ loadCount' = loadCount + 1
    /\ LET self == Len(adapters) + 1
           ad == NewAdapter(getAbsoluteUri(url), name, "miss")
           m == ModuleAt(ad.url)
       IN IF ~loaded
          THEN /\ adapters' = Append(adapters, [ad EXCEPT !.stage = "orphan"])
               /\ last' = ConstructEvent(0, "NetworkError", url, name, TRUE)
               /\ UNCHANGED <<cache, slot>>
          ELSE /\ slot' = IF m = "nothing" THEN slot ELSE m
               /\ Continuation(Append(adapters, ad), self, slot', b)
               /\ last' = ConstructEvent(self, "ok", url, name, TRUE)
    /\ UNCHANGED <<isWorker, heap>>

\* Lines 209-213 and 215-232 in the host: the JSONP fetch is started.
BuildInHost(url, name) ==
    /\ CheckTypeOfString(url) /\ CheckTypeOfString(name)
    /\ Len(adapters) < MaxAdapters
    /\ ~defined(CacheLookup(cache, name))
    /\ ~isWorker
    /\ loadCount' = loadCount + 1
    /\ LET self == Len(adapters) + 1
           ad == NewAdapter(getAbsoluteUri(url), name, "miss")
       IN /\ adapters' = Append(adapters, [ad EXCEPT !.stage = "fetching"])
          /\ last' = ConstructEvent(self, "ok", url, name, TRUE)
    /\ UNCHANGED <<isWorker, cache, slot, heap>>

\* buildCustomProjection(this, absoluteUrl, projectionName), line 58, for
\* arguments that passed the checks of lines 44-45.
buildCustomProjection(url, name) ==
    \/ \E b \in FactoryBehaviours : BuildCacheHit(url, name, b)
    \/ \E loaded \in BOOLEAN, b \in FactoryBehaviours : BuildInWorker(url, name, loaded, b)
    \/ BuildInHost(url, name)

\* new CustomProjection(url, projectionName)
CustomProjection(url, name) ==
    \/ ConstructRejected(url, name)
    \/ buildCustomProjection(url, name)

\* The script element of the JSONP fetch of Adapter a runs the file.
ScriptExecutes(a) ==
    /\ a \in 1..Len(adapters)
    /\ adapters[a].stage = "fetching"
    /\ slot' = IF ModuleAt(adapters[a].url) = "nothing" THEN slot ELSE ModuleAt(adapters[a].url)
    /\ adapters' = [adapters EXCEPT ![a].stage = "executed"]
    /\ last' = Event("scriptExecutes", a, "-")
    /\ UNCHANGED <<isWorker, cache, loadCount, heap>>

\* FetchFails starting the fetch again instead of rejecting.
FetchFailsRetries(a) ==
    /\ a \in 1..Len(adapters)
    /\ adapters[a].stage = "fetching"
    /\ loadCount < MaxAdapters + 1
    /\ loadCount' = loadCount + 1
    /\ last' = Event("fetchFails", a, "-")
    /\ UNCHANGED <<isWorker, cache, slot, adapters, heap>>

\* The JSONP fetch of Adapter a fails: the promise of line 210 is rejected and
\* the handlers of lines 216 and 228 are skipped.
FetchFails(a) ==
    /\ a \in 1..Len(adapters)
    /\ adapters[a].stage = "fetching"
    /\ adapters' = [adapters EXCEPT
            ![a].stage = "failed",
            ![a].fetch = PromiseReject(@, ErrorValue("RequestError", adapters[a].url, "-"))]
    /\ last' = Event("fetchFails", a, "-")
    /\ UNCHANGED <<isWorker, cache, slot, loadCount, heap>>

\* The JSONP fetch of Adapter a is fulfilled: the handler of line 216 runs.
FetchResolves(a) ==
    /\ a \in 1..Len(adapters)
    /\ adapters[a].stage = "executed"
    /\ \E b \in FactoryBehaviours : Continuation(adapters, a, slot, b)
    /\ last' = Event("fetchResolves", a, "-")
    /\ UNCHANGED <<isWorker, slot, loadCount, heap>>

\* The callbacks invoked so far for the first n Adapters.
RECURSIVE CallbacksInvoked(_)
CallbacksInvoked(n) == IF n = 0 THEN 0 ELSE adapters[n].cbCount + CallbacksInvoked(n - 1)

\* The factory invoked for Adapter a calls the callback it kept.
FactoryCallback(a) ==
    /\ a \in 1..Len(adapters)
    /\ adapters[a].stage = "invoked"
    /\ CallbacksInvoked(Len(adapters)) < MaxCallbacks
    /\ adapters' = [adapters EXCEPT ![a] = ChainSettle(CompletionCallback(@, a), a)]
    /\ last' = Event("callback", a, "-")
    /\ UNCHANGED <<isWorker, cache, slot, loadCount, heap>>

\* A caller calls resolve on the object the readyPromise accessor (lines
\* 105-109) gave it.  On a cache hit that object is the deferred of line 194
\* (line 203), whose resolve the callback of line 200 calls as well; on a cache
\* miss it is the promise of lines 215-230, which has no resolve.
CallerResolves(a) ==
    /\ a \in 1..Len(adapters)
    /\ adapters[a].stage # "orphan"
    /\ IF adapters[a].path = "hit"
       THEN /\ adapters' = [adapters EXCEPT ![a].deferred = PromiseResolve(@, UndefinedValue)]
            /\ last' = Event("callerResolves", a, "ok")
       ELSE /\ adapters' = adapters
            /\ last' = Event("callerResolves", a, "TypeError")
    /\ UNCHANGED <<isWorker, cache, slot, loadCount, heap>>

\* The object a call returns: the result argument, or the object it allocates.
Returned(h, result) == IF result = NoObject THEN Len(h) + 1 ELSE result

\* Lines 157-162 and 184-189: allocate the result when the caller gave none,
\* then let the stored function fn write into it what it computes from the input.
Delegate(h, fn, shape, input, result) ==
    LET h1 == IF result = NoObject THEN Append(h, NewObject(shape)) ELSE h
    IN [h1 EXCEPT ![Returned(h, result)].v = StoredCall(fn, h[input].v)]

\* The arguments of a call: objects of the shapes the call is documented for, or
\* none; a call that has to allocate needs room for the object.
CallArguments(a, input, inShape, result, outShape) ==
    /\ a \in 1..Len(adapters)
    /\ adapters[a].stage # "orphan"
    /\ input \in Refs(heap, inShape) \cup {NoObject}
    /\ result \in Refs(heap, outShape) \cup {NoObject}
    /\ (adapters[a].ready /\ input # NoObject /\ result = NoObject) => Len(heap) < MaxObjects

\* project without the check of lines 151-153.
projectUnchecked(a, cartographic, result) ==
    /\ CallArguments(a, cartographic, "Cartographic", result, "Cartesian3")
    /\ cartographic # NoObject /\ result # NoObject
    /\ last' = CallEvent("project", a, "delegated", cartographic, result, result)
    /\ UNCHANGED <<isWorker, cache, slot, adapters, loadCount, heap>>

\* project writing into one scratch object of its own when it is given no result.
projectSharedScratch(a, cartographic, result) ==
    /\ CallArguments(a, cartographic, "Cartographic", result, "Cartesian3")
    /\ IF ~adapters[a].ready
       THEN /\ last' = CallEvent("project", a, "DeveloperError", cartographic, result, NoObject)
            /\ UNCHANGED heap
       ELSE IF cartographic = NoObject
       THEN /\ last' = CallEvent("project", a, "DeveloperError(defined)", cartographic, result, NoObject)
            /\ UNCHANGED heap
       ELSE LET scratch == IF result = NoObject /\ Refs(heap, "Cartesian3") # {}
                           THEN CHOOSE r \in Refs(heap, "Cartesian3") :
                                    \A q \in Refs(heap, "Cartesian3") : q <= r
                           ELSE result
            IN /\ heap' = Delegate(heap, adapters[a].project, "Cartesian3", cartographic, scratch)
               /\ last' = CallEvent("project", a, "delegated", cartographic, result,
                                    Returned(heap, scratch))
    /\ UNCHANGED <<isWorker, cache, slot, adapters, loadCount>>

\* project setting the height of what the stored function computed to zero.
projectFlattens(a, cartographic, result) ==
    /\ CallArguments(a, cartographic, "Cartographic", result, "Cartesian3")
    /\ IF ~adapters[a].ready
       THEN /\ last' = CallEvent("project", a, "DeveloperError", cartographic, result, NoObject)
            /\ UNCHANGED heap
       ELSE IF cartographic = NoObject
       THEN /\ last' = CallEvent("project", a, "DeveloperError(defined)", cartographic, result, NoObject)
            /\ UNCHANGED heap
       ELSE /\ heap' = [Delegate(heap, adapters[a].project, "Cartesian3", cartographic, result)
                            EXCEPT ![Returned(heap, result)].v[3] = 0]
            /\ last' = CallEvent("project", a, "delegated", cartographic, result,
                                 Returned(heap, result))
    /\ UNCHANGED <<isWorker, cache, slot, adapters, loadCount>>

\* CustomProjection.prototype.project, lines 149-163.
project(a, cartographic, result) ==
    /\ CallArguments(a, cartographic, "Cartographic", result, "Cartesian3")
    /\ IF ~adapters[a].ready
       THEN /\ last' = CallEvent("project", a, "DeveloperError", cartographic, result, NoObject)
            /\ UNCHANGED heap
       ELSE IF cartographic = NoObject
       THEN /\ last' = CallEvent("project", a, "DeveloperError(defined)", cartographic, result, NoObject)
            /\ UNCHANGED heap
       ELSE /\ heap' = Delegate(heap, adapters[a].project, "Cartesian3", cartographic, result)
            /\ last' = CallEvent("project", a, "delegated", cartographic, result,
                                 Returned(heap, result))
    /\ UNCHANGED <<isWorker, cache, slot, adapters, loadCount>>

\* unproject starting the load again before it throws.
unprojectReloads(a, cartesian, result) ==
    /\ CallArguments(a, cartesian, "Cartesian3", result, "Cartographic")
    /\ IF ~adapters[a].ready
       THEN /\ last' = CallEvent("unproject", a, "DeveloperError", cartesian, result, NoObject)
            /\ loadCount' = loadCount + 1
            /\ UNCHANGED heap
       ELSE IF cartesian = NoObject
       THEN /\ last' = CallEvent("unproject", a, "DeveloperError(defined)", cartesian, result, NoObject)
            /\ UNCHANGED <<heap, loadCount>>
       ELSE /\ heap' = Delegate(heap, adapters[a].unproject, "Cartographic", cartesian, result)
            /\ last' = CallEvent("unproject", a, "delegated", cartesian, result,
                                 Returned(heap, result))
            /\ UNCHANGED loadCount
    /\ UNCHANGED <<isWorker, cache, slot, adapters>>

\* CustomProjection.prototype.unproject, lines 176-190.
unproject(a, cartesian, result) ==
    /\ CallArguments(a, cartesian, "Cartesian3", result, "Cartographic")
    /\ IF ~adapters[a].ready
       THEN /\ last' = CallEvent("unproject", a, "DeveloperError", cartesian, result, NoObject)
            /\ UNCHANGED heap
       ELSE IF cartesian = NoObject
       THEN /\ last' = CallEvent("unproject", a, "DeveloperError(defined)", cartesian, result, NoObject)
            /\ UNCHANGED heap
       ELSE /\ heap' = Delegate(heap, adapters[a].unproject, "Cartographic", cartesian, result)
            /\ last' = CallEvent("unproject", a, "delegated", cartesian, result,
                                 Returned(heap, result))
    /\ UNCHANGED <<isWorker, cache, slot, adapters, loadCount>>

\* The steps of the loads in progress: what the fetch layer and the loaded
\* factories do.
LoadStep ==
    \/ \E a \in 1..MaxAdapters : ScriptExecutes(a)
    \/ \E a \in 1..MaxAdapters : FetchFails(a)
    \/ \E a \in 1..MaxAdapters : FetchResolves(a)
    \/ \E a \in 1..MaxAdapters : FactoryCallback(a)

\* The calls of project and unproject with an input object and a result
\* object of the caller.
CallStep ==
    \/ \E a \in 1..MaxAdapters, g \in Refs(heap, "Cartographic"), p \in Refs(heap, "Cartesian3") :
            project(a, g, p)
    \/ \E a \in 1..MaxAdapters, p \in Refs(heap, "Cartesian3"), g \in Refs(heap, "Cartographic") :
            unproject(a, p, g)

\* The whole program: every operation, every argument.
Next ==
    \/ \E url \in UrlInputs, name \in NameInputs : CustomProjection(url, name)
    \/ LoadStep
    \/ CallStep

Spec == Init /\ [][Next]_vars

\* The loader alone: constructions with every string argument and the steps of
\* their loads.  The operations left out write only last and the coordinate
\* objects, so that cache, slot, adapters and loadCount take the same values as
\* under Spec.
NextLoad ==
    \/ \E url \in UrlInputs \ {Undefined}, name \in NameInputs \ {Undefined} :
            buildCustomProjection(url, name)
    \/ LoadStep

SpecLoad == Init /\ [][NextLoad]_vars

\* The loader and the calls of project and unproject, for the two names, a file
\* that assigns a factory and a file that assigns none.
CallUrls == {"", "a.js"}

NextCalls ==
    \/ \E url \in CallUrls, name \in NameInputs \ {Undefined} :
            buildCustomProjection(url, name)
    \/ LoadStep
    \/ CallStep

SpecCalls == Init /\ [][NextCalls]_vars

\* The constructor with present and missing arguments, and the steps of the
\* loads, for the two names, a file that assigns a factory and a file that
\* assigns none.
NextArgs ==
    \/ \E url \in CallUrls \cup {Undefined}, name \in NameInputs :
            CustomProjection(url, name)
    \/ LoadStep

SpecArgs == Init /\ [][NextArgs]_vars

\* The loader for a name that Object.prototype has a property of, and a name
\* that it has none of.
NextNames ==
    \/ \E url \in CallUrls, name \in {"simple"} \cup PrototypeProperties :
            buildCustomProjection(url, name)
    \/ LoadStep

SpecNames == Init /\ [][NextNames]_vars

\* The loader and a caller that calls resolve on what readyPromise returns.
NextCaller ==
    \/ \E url \in CallUrls : buildCustomProjection(url, "simple")
    \/ LoadStep
    \/ \E a \in 1..MaxAdapters : CallerResolves(a)

SpecCaller == Init /\ [][NextCaller]_vars

\* The coordinates: one Adapter, loaded from a file that assigns a factory, and
\* called with every input of GeoInputs and PlanarInputs, with and without an
\* input object and a result object.
InitCoords ==
    /\ isWorker \in BOOLEAN
    /\ cache = [n \in ProjectionNames |-> Undefined]
    /\ slot = Undeclared
    /\ adapters = <<>>
    /\ loadCount = 0
    /\ last = Event("init", 0, "-")
    /\ \E g \in GeoInputs, p \in PlanarInputs : heap = <<Cartographic(g), Cartesian3(p)>>

NextCoords ==
    \/ Len(adapters) = 0 /\ buildCustomProjection("a.js", "simple")
    \/ LoadStep
    \/ \E a \in 1..MaxAdapters, g \in 0..MaxObjects, p \in 0..MaxObjects : project(a, g, p)
    \/ \E a \in 1..MaxAdapters, p \in 0..MaxObjects, g \in 0..MaxObjects : unproject(a, p, g)

SpecCoords == InitCoords /\ [][NextCoords]_vars

(***************************************************************************)
(* Properties.                                                             *)
(***************************************************************************)

\* The Adapter a step has just constructed, or 0.
Built == IF Len(adapters') = Len(adapters) + 1 THEN Len(adapters') ELSE 0

Calls == {"project", "unproject"}

\* C1: once the cache lookup finds a factory under a name, and in particular
\* once an Adapter of that name is ready, every construction with that name
\* takes the cache-hit path and calls neither Resource.fetchJsonp nor
\* importScripts: the load count stays as it was.
C1_CacheHitNoLoad ==
    [][ Built # 0 =>
          LET n == adapters'[Built].name IN
          (\/ defined(CacheLookup(cache, n))
           \/ \E a \in 1..Len(adapters) : adapters[a].name = n /\ adapters[a].ready)
          => /\ loadCount' = loadCount
             /\ adapters'[Built].path = "hit" ]_vars

\* Two Adapters of one name from different urls, the second one constructed on a
\* cache hit after the first became ready, with one load in all.
C1_Witness ==
    /\ Len(adapters) = 2
    /\ adapters[1].name = adapters[2].name
    /\ adapters[1].url # adapters[2].url
    /\ adapters[1].ready
    /\ adapters[2].path = "hit"
    /\ last.op = "construct" /\ last.a = 2
    /\ loadCount = 1

\* C2: an Adapter is ready exactly from the first call of its completion
\* callback on; a call of project or unproject before that throws and is not
\* delegated, a call after it is delegated.
C2_ReadyAfterCallback ==
    /\ \A a \in 1..Len(adapters) : adapters[a].ready <=> adapters[a].cbCount > 0
    /\ last.op \in Calls =>
          /\ last.outcome = "delegated" <=> adapters[last.a].cbCount > 0
          /\ last.outcome = "DeveloperError" <=> adapters[last.a].cbCount = 0

\* A project call delegated right after a callback that the factory had kept.
C2_Witness ==
    /\ last.op = "project"
    /\ last.outcome = "delegated"
    /\ adapters[last.a].path = "miss"
    /\ adapters[last.a].cbCount = 1

\* C3: a project or unproject call on an Adapter that is not ready throws a
\* DeveloperError and changes nothing: the Adapters (flag, stored functions,
\* promises), the cache, the global, the load count and the coordinate objects
\* are as before; and a call on a ready Adapter does not throw.
C3_FailedCallChangesNothing ==
    /\ [][ last'.op \in Calls /\ last'.a \in 1..Len(adapters) /\ ~adapters[last'.a].ready
           => /\ last'.outcome = "DeveloperError"
              /\ adapters' = adapters
              /\ cache' = cache
              /\ slot' = slot
              /\ loadCount' = loadCount
              /\ heap' = heap ]_vars
    /\ [](last.op \in Calls /\ adapters[last.a].ready => last.outcome = "delegated")

\* An unproject call rejected while the factory holds the callback uncalled.
C3_Witness ==
    /\ last.op = "unproject"
    /\ last.outcome = "DeveloperError"
    /\ adapters[last.a].stage = "invoked"
    /\ ~adapters[last.a].ready

\* The load of an Adapter is over: its file was run and line 216 was reached,
\* or the load failed.
LoadOver(ad) == ad.path = "miss" /\ ad.stage \in {"invoked", "ignored", "failed", "orphan"}

\* The load of an Adapter failed, or its file assigned no factory.
LoadFailed(ad) ==
    \/ ad.stage = "orphan"
    \/ ad.fetch.state = "rejected" /\ ad.fetch.kind = "RequestError"
    \/ ModuleAt(ad.url) = "nothing"

\* C4 (as claimed): when the load of an Adapter failed, or its file assigned no
\* factory, the constructor has returned and the promise in _readyPromise is
\* rejected.
C4_MissingFactoryRejects ==
    \A a \in 1..Len(adapters) :
        LoadOver(adapters[a]) /\ LoadFailed(adapters[a])
        => /\ adapters[a].stage # "orphan"
           /\ readyPromise(adapters[a]).state = "rejected"

\* C5 (as claimed): a construction with a missing or empty url or
\* projectionName throws a DeveloperError and reads no cache entry.
C5_EmptyRejected ==
    last.op = "construct" /\ (last.url \in {Undefined, ""} \/ last.name \in {Undefined, ""})
    => last.outcome = "DeveloperError" /\ ~last.cacheRead

\* C5 (amended): a construction with a url or a projectionName that is not a
\* string throws a DeveloperError at once, starts no load, reads and writes no
\* cache entry and creates no Adapter; one whose url and projectionName are
\* strings, the empty string included, is not rejected by the argument checks.
C5_NonStringRejected ==
    [][ last'.op = "construct" =>
          IF TypeOf(last'.url) # "string" \/ TypeOf(last'.name) # "string"
          THEN /\ last'.outcome = "DeveloperError"
               /\ ~last'.cacheRead
               /\ loadCount' = loadCount
               /\ cache' = cache
               /\ adapters' = adapters
               /\ slot' = slot
          ELSE /\ last'.outcome # "DeveloperError"
               /\ last'.cacheRead
               /\ Built # 0 ]_vars

\* A construction with an empty url and no projectionName, rejected after an
\* Adapter was built.
C5_Witness ==
    /\ last.op = "construct"
    /\ last.url = ""
    /\ last.name = Undefined
    /\ last.outcome = "DeveloperError"
    /\ Len(adapters) = 1

\* Two Adapters of one name that both took the cache-miss path.
MissPair(a, b) ==
    /\ a < b
    /\ adapters[a].name = adapters[b].name
    /\ adapters[a].path = "miss" /\ adapters[b].path = "miss"

\* The promise in _readyPromise is resolved with the Adapter itself.
ResolvedWithSelf(a) ==
    /\ readyPromise(adapters[a]).state = "resolved"
    /\ readyPromise(adapters[a]).kind = "adapter"
    /\ readyPromise(adapters[a]).id = a

\* The stored functions are the pair the factory of Adapter a passed to the
\* latest call of the callback.
WiredToOwnFactory(a) ==
    /\ adapters[a].factory \in {"fA", "fB"}
    /\ adapters[a].project = PairFunction("project", adapters[a].factory, adapters[a].cbCount)
    /\ adapters[a].unproject = PairFunction("unproject", adapters[a].factory, adapters[a].cbCount)

\* C6: two Adapters constructed with one name that both missed the cache each
\* issued a load; each one whose factory called back is ready, wired to the pair
\* of the factory it stored under the name, with its promise resolved with
\* itself; and each store under the name replaces what was there.
C6_DuplicateLoads ==
    /\ [](\A a, b \in 1..Len(adapters) : MissPair(a, b) =>
            /\ loadCount >= 2
            /\ \A x \in {a, b} : adapters[x].cbCount > 0 =>
                  /\ adapters[x].ready
                  /\ WiredToOwnFactory(x)
                  /\ ResolvedWithSelf(x))
    /\ [][ \A x \in 1..Len(adapters) :
             adapters[x].stage = "executed" /\ adapters'[x].factory # "none"
             => cache'[adapters[x].name] = adapters'[x].factory ]_vars

\* Two loads of one name that overlapped: the Adapter constructed second stored
\* fB first, the one constructed first then stored fA over it, and both are
\* ready and resolved.
C6_Witness ==
    /\ Len(adapters) = 2
    /\ MissPair(1, 2)
    /\ adapters[1].factory = "fA" /\ adapters[2].factory = "fB"
    /\ cache[adapters[1].name] = "fA"
    /\ adapters[1].ready /\ adapters[2].ready
    /\ ResolvedWithSelf(1) /\ ResolvedWithSelf(2)
    /\ WiredToOwnFactory(1) /\ WiredToOwnFactory(2)
    /\ loadCount = 2

\* C7: _ready is false until the callback is first called, and once true it is
\* true after every step.
C7_ReadyMonotonic ==
    /\ [](\A a \in 1..Len(adapters) : adapters[a].cbCount = 0 => ~adapters[a].ready)
    /\ [][ \A a \in 1..Len(adapters) : adapters[a].ready => adapters'[a].ready ]_vars

\* A ready Adapter whose callback was called twice and which was then used.
C7_Witness ==
    /\ last.op \in Calls
    /\ adapters[last.a].ready
    /\ adapters[last.a].cbCount = 2

\* C8: whenever the promise in _readyPromise is resolved, it is resolved with
\* the Adapter itself, the Adapter is ready, and its stored functions are the
\* pair passed to the callback.
C8_ResolvedWithReadyAdapter ==
    \A a \in 1..Len(adapters) :
        readyPromise(adapters[a]).state = "resolved"
        => /\ ResolvedWithSelf(a)
           /\ adapters[a].ready
           /\ adapters[a].project = PairFunction("project", adapters[a].factory, adapters[a].cbCount)
           /\ adapters[a].unproject = PairFunction("unproject", adapters[a].factory, adapters[a].cbCount)

\* A cache-miss Adapter and a cache-hit Adapter, both resolved.
C8_Witness ==
    /\ Len(adapters) = 2
    /\ adapters[1].path = "miss" /\ adapters[2].path = "hit"
    /\ ResolvedWithSelf(1) /\ ResolvedWithSelf(2)

\* C9: once the promise in _readyPromise is settled, no step changes its state
\* or its value, a further call of the callback included.
C9_SettledOnce ==
    [][ \A a \in 1..Len(adapters) :
          readyPromise(adapters[a]).state # "pending"
          => readyPromise(adapters'[a]) = readyPromise(adapters[a]) ]_vars

\* The callback of a cache-hit Adapter was just called a second time.
C9_Witness ==
    /\ last.op = "callback"
    /\ adapters[last.a].path = "hit"
    /\ adapters[last.a].cbCount = 2
    /\ ResolvedWithSelf(last.a)

\* C10 (as claimed): a rejected promise in _readyPromise carries an error that
\* tells the url and the projection name of the load.
C10_RejectionNamesLoad ==
    \A a \in 1..Len(adapters) :
        readyPromise(adapters[a]).state = "rejected"
        => /\ readyPromise(adapters[a]).url = adapters[a].url
           /\ readyPromise(adapters[a]).name = adapters[a].name

\* The shape of the object a call returns, and the stored function it uses.
ResultShape(op) == IF op = "project" THEN "Cartesian3" ELSE "Cartographic"
StoredFunction(ad, op) == IF op = "project" THEN ad.project ELSE ad.unproject

\* C11: a call of project or unproject on a ready Adapter with a result object
\* returns that object, holding what the stored function computes from the
\* input; a call without one returns a new object of the shape of the call (a
\* Cartesian3 for project, a Cartographic for unproject) that is not the input
\* and not any object there was before, holding what the stored function
\* computes; and no other object is written.
C11_ResultObject ==
    [][ last'.op \in Calls /\ last'.outcome = "delegated" =>
          /\ heap'[last'.ret].shape = ResultShape(last'.op)
          /\ heap'[last'.ret].v =
                StoredCall(StoredFunction(adapters[last'.a], last'.op), heap[last'.arg].v)
          /\ IF last'.out # NoObject
             THEN last'.ret = last'.out /\ Len(heap') = Len(heap)
             ELSE /\ last'.ret \notin 1..Len(heap)
                  /\ last'.ret # last'.arg
                  /\ Len(heap') = Len(heap) + 1
          /\ \A r \in 1..Len(heap) : r # last'.ret => heap'[r] = heap[r] ]_vars

\* An unproject call without a result object that returned a second new object,
\* a Cartographic, after a project call had returned a new Cartesian3.
C11_Witness ==
    /\ last.op = "unproject"
    /\ last.outcome = "delegated"
    /\ last.out = NoObject
    /\ last.ret = 4
    /\ heap[3].shape = "Cartesian3"
    /\ heap[4].shape = "Cartographic"
    /\ heap[4].v # <<0, 0, 0>>

\* C12: on a ready Adapter wired to the example pair, a call of one function on
\* what a call of the other has just returned gives the coordinates the first
\* call was given: project(unproject(p)) = p and unproject(project(g)) = g.
C12_RoundTrip ==
    [][ /\ last.op \in Calls /\ last.outcome = "delegated"
        /\ last'.op \in Calls /\ last'.outcome = "delegated"
        /\ last'.op # last.op
        /\ last'.a = last.a
        /\ last'.arg = last.ret
        => heap'[last'.ret].v = heap[last.arg].v ]_vars

\* project, called on the Cartographic that unproject allocated for the planar
\* input, returned a new Cartesian3 equal to that input.
C12_Witness ==
    /\ last.op = "project"
    /\ last.outcome = "delegated"
    /\ Len(heap) = 4
    /\ last.arg = 3 /\ heap[3].shape = "Cartographic"
    /\ last.ret = 4
    /\ heap[2].v \in PlanarInputs
    /\ heap[3].v = StoredCall(PairFunction("unproject", "fA", 1), heap[2].v)
    /\ heap[4].v = heap[2].v

\* C13: only a call of the completion callback makes an Adapter ready.  While
\* the callback of an Adapter has not been called, the Adapter is not ready and
\* the promise in _readyPromise is not resolved, whatever the other Adapters,
\* the cache and the callers of project and unproject do; and every step that
\* makes an Adapter ready is a call of its callback.
C13_OnlyCallbackMakesReady ==
    /\ [](\A a \in 1..Len(adapters) :
            adapters[a].cbCount = 0
            => /\ ~adapters[a].ready
               /\ readyPromise(adapters[a]).state # "resolved"
               /\ adapters[a].project = NoFunction
               /\ adapters[a].unproject = NoFunction)
    /\ [][ \A a \in 1..Len(adapters') :
             adapters'[a].ready /\ (a > Len(adapters) \/ ~adapters[a].ready)
             => adapters'[a].cbCount = 1 ]_vars

\* Adapter 1 is held by a factory that has not called back: it is not ready and
\* a project call on it was just rejected, while Adapter 2, built from the cache
\* entry that the load of Adapter 1 wrote, is ready.
C13_Witness ==
    /\ Len(adapters) = 2
    /\ adapters[1].stage = "invoked" /\ adapters[1].cbCount = 0
    /\ ~adapters[1].ready
    /\ readyPromise(adapters[1]).state = "pending"
    /\ adapters[2].name = adapters[1].name
    /\ adapters[2].path = "hit" /\ adapters[2].ready
    /\ cache[adapters[1].name] = adapters[1].factory
    /\ last.op = "project" /\ last.a = 1 /\ last.outcome = "DeveloperError"

\* The load of an Adapter succeeded: its file was fetched and assigned a
\* factory, and that factory took the callback without throwing.
LoadSucceeded(ad) ==
    /\ ad.path = "miss"
    /\ ad.stage = "invoked"
    /\ ModuleAt(ad.url) # "nothing"

\* C14 (as claimed): a name has an entry in the cache only if the load of some
\* Adapter of that name succeeded.
C14_EntryOnlyAfterSuccess ==
    \A n \in ProjectionNames :
        defined(cache[n])
        => \E a \in 1..Len(adapters) : adapters[a].name = n /\ LoadSucceeded(adapters[a])

\* C15: a name that has an entry in the cache has one after every step; a load
\* of the name may replace the entry, nothing removes it.
C15_NeverEvicts ==
    [][ \A n \in ProjectionNames : defined(cache[n]) => defined(cache'[n]) ]_vars

\* Two loads of one name overlapped; the factory of the first threw, the entry
\* it had written stayed, and the load of the second has just replaced it.
C15_Witness ==
    /\ Len(adapters) = 2
    /\ MissPair(1, 2)
    /\ adapters[1].stage = "failed" /\ adapters[1].factory = "fA"
    /\ adapters[2].factory = "fB"
    /\ cache[adapters[1].name] = "fB"
    /\ last.op = "fetchResolves" /\ last.a = 2

\* C16: on a cache miss the factory is stored under the name before it is
\* invoked: an Adapter whose factory has been invoked, whatever the factory then
\* did, has its name in the cache, the step that invokes the factory on a miss
\* leaves that factory under the name, and a ready Adapter has its name in the
\* cache.
C16_StoredBeforeInvoked ==
    /\ [](\A a \in 1..Len(adapters) :
            (adapters[a].factory # "none" \/ adapters[a].ready)
            => defined(CacheLookup(cache, adapters[a].name)))
    /\ [][ \A a \in 1..Len(adapters') :
             /\ adapters'[a].path = "miss"
             /\ adapters'[a].factory # "none"
             /\ (a > Len(adapters) \/ adapters[a].factory = "none")
             => cache'[adapters'[a].name] = adapters'[a].factory ]_vars

\* The factory of Adapter 1 threw when the load invoked it, after it had been
\* stored; Adapter 2 found it in the cache, invoked it a second time and is
\* ready.
C16_Witness ==
    /\ Len(adapters) = 2
    /\ adapters[1].path = "miss" /\ adapters[1].stage = "failed"
    /\ adapters[1].factory = "fA"
    /\ adapters[2].name = adapters[1].name
    /\ adapters[2].path = "hit" /\ adapters[2].factory = "fA"
    /\ adapters[2].ready

\* C17: a construction on a cache hit calls neither Resource.fetchJsonp nor
\* importScripts, a construction on a cache miss calls one of them once, and no
\* other step calls them: the calls made are as many as the constructions that
\* missed the cache.
C17_OneLoadPerConstruction ==
    /\ [][ IF Built # 0
           THEN loadCount' = loadCount + (IF adapters'[Built].path = "miss" THEN 1 ELSE 0)
           ELSE loadCount' = loadCount ]_vars
    /\ [](loadCount = Cardinality({a \in 1..Len(adapters) : adapters[a].path = "miss"}))

\* The fetch of Adapter 1 failed and was not started again; the next
\* construction with the name missed the cache and started the second fetch.
C17_Witness ==
    /\ Len(adapters) = 2
    /\ adapters[1].stage = "failed"
    /\ adapters[1].fetch.kind = "RequestError"
    /\ adapters[2].name = adapters[1].name
    /\ adapters[2].path = "miss" /\ adapters[2].stage = "fetching"
    /\ loadCount = 2
    /\ last.op = "construct" /\ last.a = 2

\* C18 (as claimed): in the host, of two Adapters with different names and
\* different urls that both missed the cache and whose files both assign a
\* factory, each one is wired to the factory of its own file, and the cache
\* holds under each name the factory of a file loaded for that name.
C18_OwnFactory ==
    ~isWorker =>
    \A a, b \in 1..Len(adapters) :
        /\ adapters[a].name # adapters[b].name
        /\ adapters[a].url # adapters[b].url
        /\ adapters[a].path = "miss" /\ adapters[b].path = "miss"
        /\ ModuleAt(adapters[a].url) # "nothing" /\ ModuleAt(adapters[b].url) # "nothing"
        /\ adapters[a].factory # "none"
        => /\ adapters[a].factory = ModuleAt(adapters[a].url)
           /\ cache[adapters[a].name] = ModuleAt(adapters[a].url)

\* C19 (as claimed): the first construction with a name, whatever the name,
\* finds no entry and takes the cache-miss path.
C19_FirstConstructionMisses ==
    \A a \in 1..Len(adapters) :
        (\A b \in 1..(a - 1) : adapters[b].name # adapters[a].name)
        => adapters[a].path = "miss"

\* C20 (as claimed): whatever a caller does with the object readyPromise
\* returns, the promise in _readyPromise is resolved only when the Adapter is
\* ready, and with the Adapter.
C20_CallerCannotSettle ==
    \A a \in 1..Len(adapters) :
        readyPromise(adapters[a]).state = "resolved"
        => /\ adapters[a].ready
           /\ readyPromise(adapters[a]).kind = "adapter"
           /\ readyPromise(adapters[a]).id = a

====
